---------------------------- MODULE Spec2Model ----------------------------
(***************************************************************************)
(* State-machine model of the MultimodalProcessor component (src/src/App.js).*)
(* The component's React state (files, query, response, loading, error),   *)
(* the processFile promises that are in flight, the backend requests that  *)
(* are in flight, and the pending promise continuations (microtasks) are   *)
(* the state.  Every event handler and every await continuation is one     *)
(* action; the browser (FileReader, pdf.js, fetch) is the environment and  *)
(* its outcomes are nondeterministic.  JavaScript strings are TLA+ strings.*)
(***************************************************************************)
EXTENDS Integers, Sequences, FiniteSets

VARIABLES files, query, response, loading, error, ingestions, microtasks, pending

vars == <<files, query, response, loading, error, ingestions, microtasks, pending>>

---------------------------------------------------------------------------
(* Bounds of the model *)

\* ingestions that may be in flight (or stuck) at once
MaxInFlight == 2
\* backend requests that may be in flight at once
MaxPending == 2
\* Date.now() returns a value in 0..MaxNow
MaxNow == 1

---------------------------------------------------------------------------
(* JavaScript values *)

Str(s) == [t |-> "string", v |-> s]
Num(s) == [t |-> "number", v |-> s]
Undefined == [t |-> "undefined", v |-> ""]

\* ToBoolean on the values above
Truthy(x) ==
    CASE x.t = "string" -> x.v # ""
      [] x.t = "number" -> x.v \notin {"0", "NaN"}
      [] OTHER -> FALSE

\* a || b
OrElse(a, b) == IF Truthy(a) THEN a ELSE b

Min(a, b) == IF a < b THEN a ELSE b

\* String.prototype.startsWith
StartsWith(s, p) == Len(s) >= Len(p) /\ SubSeq(s, 1, Len(p)) = p

\* String.prototype.slice(0, n), n >= 0
SliceFromStart(s, n) == SubSeq(s, 1, Min(Len(s), n))

Whitespace == {" ", "\n", "\t", "\r"}

RECURSIVE TrimStart(_)
TrimStart(s) ==
    IF Len(s) > 0 /\ SubSeq(s, 1, 1) \in Whitespace
    THEN TrimStart(SubSeq(s, 2, Len(s)))
    ELSE s

RECURSIVE TrimEnd(_)
TrimEnd(s) ==
    IF Len(s) > 0 /\ SubSeq(s, Len(s), Len(s)) \in Whitespace
    THEN TrimEnd(SubSeq(s, 1, Len(s) - 1))
    ELSE s

\* a mutation of Trim: the question is tested without trimming
TrimNothing(s) == s

\* String.prototype.trim
Trim(s) == TrimEnd(TrimStart(s))

UpperCase == "ABCDEFGHIJKLMNOPQRSTUVWXYZ"
LowerCase == "abcdefghijklmnopqrstuvwxyz"

LowerChar(c) ==
    IF \E i \in 1..Len(UpperCase) : SubSeq(UpperCase, i, i) = c
    THEN LET i == CHOOSE j \in 1..Len(UpperCase) : SubSeq(UpperCase, j, j) = c
         IN  SubSeq(LowerCase, i, i)
    ELSE c

RECURSIVE ToLower(_)
ToLower(s) ==
    IF Len(s) = 0 THEN "" ELSE LowerChar(SubSeq(s, 1, 1)) \o ToLower(SubSeq(s, 2, Len(s)))

\* name.match(/\.(e1|e2|...)$/i)
MatchesExtension(name, exts) ==
    \E e \in exts :
        LET suffix == "." \o e
        IN  /\ Len(name) >= Len(suffix)
            /\ ToLower(SubSeq(name, Len(name) - Len(suffix) + 1, Len(name))) = suffix

getFileCategory(type, name) ==
    IF StartsWith(type, "text/") \/ MatchesExtension(name, {"txt", "md", "pdf", "docx", "pptx"})
    THEN "text"
    ELSE IF StartsWith(type, "image/") \/ MatchesExtension(name, {"png", "jpg", "jpeg", "gif", "webp"})
    THEN "image"
    ELSE IF StartsWith(type, "audio/") \/ MatchesExtension(name, {"mp3", "wav", "ogg"})
    THEN "audio"
    ELSE IF StartsWith(type, "video/") \/ MatchesExtension(name, {"mp4", "webm", "mov"})
    THEN "video"
    ELSE "other"

---------------------------------------------------------------------------
(* The files the user can select *)

RECURSIVE Repeat(_, _)
Repeat(s, n) ==
    IF n = 0 THEN ""
    ELSE IF n % 2 = 0 THEN Repeat(s \o s, n \div 2)
    ELSE s \o Repeat(s \o s, n \div 2)

\* the length the prompt builder cuts a file's text to
SliceLimit == 1000

PdfType == "application/pdf"

\* A File of the browser: its name, declared type and bytes, and (for a PDF)
\* the text items of its pages as pdf.js reports them.
TextFile ==
    [name |-> "notes.txt", type |-> "text/plain", bytes |-> "hello world", pages |-> <<>>]
PdfFile ==
    [name |-> "Paper.PDF", type |-> PdfType, bytes |-> "%PDF-1.4",
     pages |-> << <<"Hello", "PDF">>, <<Repeat("x", SliceLimit)>> >>]

UserFiles == {TextFile, PdfFile}

\* e.target.files: nothing selected, or the one selected file (the input is
\* not a multiple-selection input)
Selections == {<<>>} \cup {<<f>> : f \in UserFiles}

Questions == {"", " \n", "what does the file say?"}

Timestamps == 0..MaxNow

---------------------------------------------------------------------------
(* File Ingestor *)

\* Array.prototype.join
RECURSIVE Join(_, _)
Join(items, sep) ==
    IF Len(items) = 0 THEN ""
    ELSE IF Len(items) = 1 THEN items[1]
    ELSE items[1] \o sep \o Join(Tail(items), sep)

\* the loop of extractTextFromPdf from page i + 1 on, text being the text so far
RECURSIVE ExtractFrom(_, _, _)
ExtractFrom(pages, i, text) ==
    IF i < Len(pages)
    THEN ExtractFrom(pages, i + 1, text \o Join(pages[i + 1], " ") \o "\n")
    ELSE text

extractTextFromPdf(pages) == ExtractFrom(pages, 0, "")

\* the result of readAsArrayBuffer, and the text extracted from a PDF
ArrayBuffer(bytes) == [kind |-> "ArrayBuffer", data |-> bytes]
Text(s) == [kind |-> "string", data |-> s]

\* the record processFile resolves with; now is the value of Date.now()
IngestedFile(file, content, now) ==
    [id |-> now, name |-> file.name, type |-> file.type, size |-> Len(file.bytes),
     content |-> content, category |-> getFileCategory(file.type, file.name)]

\* One processFile call of one handleFileUpload call:
\*   stage    where the FileReader / onload callback is
\*   promise  the state of the promise processFile returned
\*   value    <<record>> once the promise is resolved
Ingestion(file) ==
    [file |-> file, stage |-> "reading", promise |-> "pending", value |-> <<>>]

\* the sequence s without its i-th element
Without(s, i) == SubSeq(s, 1, i - 1) \o SubSeq(s, i + 1, Len(s))

\* Macrotasks (events, reader and network callbacks) run only when no promise
\* continuation is waiting to run.
Idle == microtasks = <<>>

\* <input type="file" onChange={handleFileUpload}>: always enabled
handleFileUpload(selection) ==
    /\ Idle
    /\ IF Len(selection) = 0
       THEN UNCHANGED ingestions
       ELSE /\ Len(ingestions) < MaxInFlight
            /\ ingestions' = Append(ingestions, Ingestion(selection[1]))
    /\ UNCHANGED <<files, query, response, loading, error, microtasks, pending>>

\* reader.onload, up to its first await or its end
ReaderLoad(i, now) ==
    /\ Idle
    /\ ingestions[i].stage = "reading"
    /\ IF ingestions[i].file.type = PdfType
       THEN /\ ingestions' = [ingestions EXCEPT ![i].stage = "parsing"]
            /\ UNCHANGED microtasks
       ELSE /\ ingestions' =
                 [ingestions EXCEPT
                    ![i].stage = "loaded",
                    ![i].promise = "resolved",
                    ![i].value = <<IngestedFile(ingestions[i].file,
                                                ArrayBuffer(ingestions[i].file.bytes), now)>>]
            /\ microtasks' = Append(microtasks, i)
    /\ UNCHANGED <<files, query, response, loading, error, pending>>

\* reader.onload after extractTextFromPdf returned the text
PdfExtracted(i, now) ==
    /\ Idle
    /\ ingestions[i].stage = "parsing"
    /\ ingestions' =
         [ingestions EXCEPT
            ![i].stage = "loaded",
            ![i].promise = "resolved",
            ![i].value = <<IngestedFile(ingestions[i].file,
                                        Text(extractTextFromPdf(ingestions[i].file.pages)), now)>>]
    /\ microtasks' = Append(microtasks, i)
    /\ UNCHANGED <<files, query, response, loading, error, pending>>

\* extractTextFromPdf throws (getDocument, getPage or getTextContent rejects):
\* the async onload callback ends with its own promise rejected; neither
\* resolve nor reject of processFile's promise is called
PdfFails(i) ==
    /\ Idle
    /\ ingestions[i].stage = "parsing"
    /\ ingestions' = [ingestions EXCEPT ![i].stage = "parseError"]
    /\ UNCHANGED <<files, query, response, loading, error, microtasks, pending>>

\* reader.onerror
ReaderError(i) ==
    /\ Idle
    /\ ingestions[i].stage = "reading"
    /\ ingestions' = [ingestions EXCEPT ![i].stage = "readError", ![i].promise = "rejected"]
    /\ microtasks' = Append(microtasks, i)
    /\ UNCHANGED <<files, query, response, loading, error, pending>>

\* a mutation of UploadedFiles: the new record is appended to the collection
UploadedFilesAppended(prev, processed) == Append(prev, processed)

\* the argument of setFiles in handleFileUpload
UploadedFiles(prev, processed) == <<processed>>

\* handleFileUpload after `await processFile(...)`: the promise is settled.
\* A rejection ends the handler with an exception nobody catches.
UploadContinues ==
    /\ microtasks # <<>>
    /\ LET i == Head(microtasks)
       IN  /\ IF ingestions[i].promise = "resolved"
              THEN files' = UploadedFiles(files, ingestions[i].value[1])
              ELSE UNCHANGED files
           /\ ingestions' = Without(ingestions, i)
    /\ microtasks' = Tail(microtasks)
    /\ UNCHANGED <<query, response, loading, error, pending>>

\* the predicate of prev.filter in removeFile
KeptByRemove(f, id) == f.id # id

\* the Trash button of a listed file
removeFile(id) ==
    /\ Idle
    /\ \E k \in 1..Len(files) : files[k].id = id
    /\ files' = SelectSeq(files, LAMBDA f : KeptByRemove(f, id))
    /\ UNCHANGED <<query, response, loading, error, ingestions, microtasks, pending>>

---------------------------------------------------------------------------
(* Prompt Builder *)

\* content?.toString(): an ArrayBuffer has Object.prototype.toString
toString(content) ==
    IF content.kind = "ArrayBuffer" THEN "[object ArrayBuffer]" ELSE content.data

\* the template literal of buildContext for one file
FileBlock(f) ==
    "File: " \o f.name \o "\nContent: " \o SliceFromStart(toString(f.content), SliceLimit) \o "..."

RECURSIVE Blocks(_)
Blocks(fs) == IF Len(fs) = 0 THEN <<>> ELSE <<FileBlock(Head(fs))>> \o Blocks(Tail(fs))

buildContext(fs) == Join(Blocks(fs), "\n\n")

\* the prompt field of the request body
Prompt(fs, q) == "Context:\n" \o buildContext(fs) \o "\n\nQuery:\n" \o q

---------------------------------------------------------------------------
(* Query Dispatcher *)

MsgQuestion == "Please enter a question"
MsgUpload == "Please upload a file"
Fallback == "No response found"
ErrorPrefix == "Backend error: "

\* messages of the errors the environment raises
FetchFailures == {"timeout"}
JsonSyntaxError == "Unexpected token < in JSON at position 0"
NullTypeError == "Cannot read properties of null (reading 'answer')"

AnswerText == "It says hello world."

\* What res.json() can yield: a value of one of the JSON kinds; an object
\* carries its answer property (Undefined when it has none).
Body(kind, answer) == [kind |-> kind, answer |-> answer]
Bodies ==
    {Body(k, Undefined) : k \in {"null", "number", "array", "object"}}
        \cup {Body("object", a) : a \in {Str(AnswerText), Str(""), Num("42")}}

\* data.answer on a non-null value: only an object of the model has the property
AnswerOf(data) == IF data.kind = "object" THEN data.answer ELSE Undefined

\* a backend request in flight: the prompt it carries, how far the handler is
\* (awaiting fetch, or awaiting res.json()), and res.ok once fetch resolved
Request(prompt) == [prompt |-> prompt, stage |-> "fetch", ok |-> TRUE]

\* a mutation of SearchEnabled: the button is never disabled
SearchAlwaysEnabled == TRUE

\* <button onClick={handleQuery} disabled={loading}>
SearchEnabled == ~loading

\* a mutation of NoFiles: the check for an uploaded file is missing
NoFilesUnchecked(fs) == FALSE

\* files.length === 0
NoFiles(fs) == Len(fs) = 0

\* handleQuery, up to `await fetch(...)` or a validation return
handleQuery ==
    /\ Idle
    /\ SearchEnabled
    /\ IF Trim(query) = ""
       THEN /\ error' = MsgQuestion
            /\ UNCHANGED <<loading, pending>>
       ELSE IF NoFiles(files)
       THEN /\ error' = MsgUpload
            /\ UNCHANGED <<loading, pending>>
       ELSE /\ Len(pending) < MaxPending
            /\ error' = ""
            /\ loading' = TRUE
            /\ pending' = Append(pending, Request(Prompt(files, query)))
    /\ UNCHANGED <<files, query, response, ingestions, microtasks>>

\* a mutation of CaughtError: the message is shown without the prefix
CaughtErrorBare(message) == message

\* the argument of setError in the catch block
CaughtError(message) == ErrorPrefix \o message

\* catch and finally of handleQuery for request i
Fails(i, message) ==
    /\ error' = CaughtError(message)
    /\ loading' = FALSE
    /\ pending' = Without(pending, i)
    /\ UNCHANGED <<files, query, response, ingestions, microtasks>>

\* fetch rejects (network failure)
FetchRejects(i, message) ==
    /\ Idle
    /\ pending[i].stage = "fetch"
    /\ Fails(i, message)

\* fetch resolves with a Response, whatever its status: res.json() is called
FetchResolves(i, ok) ==
    /\ Idle
    /\ pending[i].stage = "fetch"
    /\ pending' = [pending EXCEPT ![i].stage = "json", ![i].ok = ok]
    /\ UNCHANGED <<files, query, response, loading, error, ingestions, microtasks>>

\* res.json() rejects: the body is not JSON
JsonRejects(i) ==
    /\ Idle
    /\ pending[i].stage = "json"
    /\ Fails(i, JsonSyntaxError)

\* res.json() resolves with data
JsonResolves(i, data) ==
    /\ Idle
    /\ pending[i].stage = "json"
    /\ IF data.kind = "null"
       THEN Fails(i, NullTypeError)
       ELSE /\ response' = OrElse(AnswerOf(data), Str(Fallback))
            /\ loading' = FALSE
            /\ pending' = Without(pending, i)
            /\ UNCHANGED <<files, query, error, ingestions, microtasks>>

\* <textarea onChange={(e) => setQuery(e.target.value)}>
setQuery(q) ==
    /\ Idle
    /\ query' = q
    /\ UNCHANGED <<files, response, loading, error, ingestions, microtasks, pending>>

---------------------------------------------------------------------------
(* The component *)

Init ==
    /\ files = <<>>
    /\ query = ""
    /\ response = Str("")
    /\ loading = FALSE
    /\ error = ""
    /\ ingestions = <<>>
    /\ microtasks = <<>>
    /\ pending = <<>>

Next ==
    \/ \E sel \in Selections : handleFileUpload(sel)
    \/ \E i \in 1..Len(ingestions), now \in Timestamps : ReaderLoad(i, now)
    \/ \E i \in 1..Len(ingestions), now \in Timestamps : PdfExtracted(i, now)
    \/ \E i \in 1..Len(ingestions) : PdfFails(i)
    \/ \E i \in 1..Len(ingestions) : ReaderError(i)
    \/ UploadContinues
    \/ \E k \in 1..Len(files) : removeFile(files[k].id)
    \/ \E q \in Questions : setQuery(q)
    \/ handleQuery
    \/ \E i \in 1..Len(pending), m \in FetchFailures : FetchRejects(i, m)
    \/ \E i \in 1..Len(pending), ok \in BOOLEAN : FetchResolves(i, ok)
    \/ \E i \in 1..Len(pending) : JsonRejects(i)
    \/ \E i \in 1..Len(pending), data \in Bodies : JsonResolves(i, data)

Spec == Init /\ [][Next]_vars

---------------------------------------------------------------------------
(* Properties *)

\* q is empty or consists of whitespace only
IsBlank(q) == \A k \in 1..Len(q) : SubSeq(q, k, k) \in {" ", "\n", "\t", "\r"}

\* C1: in every reachable state the files collection holds at most one
\* IngestedFile, whatever the interleaving of uploads, completions, removals
\* and submissions.
C1_AtMostOneFile == Len(files) <= 1

\* a file is held while another ingestion and a query are in flight
C1_Witness == Len(files) = 1 /\ Len(ingestions) >= 1 /\ Len(pending) = 1

\* C2: at most one ingestion is in flight (its FileReader reading or its PDF
\* being parsed) at any time.
C2_OneIngestionInFlight ==
    Cardinality({i \in 1..Len(ingestions) : ingestions[i].stage \in {"reading", "parsing"}}) <= 1

\* C3: at most one backend request started by handleQuery is pending, and
\* loading is true exactly while one is.
C3_OneQueryInFlight == Len(pending) <= 1 /\ (loading <=> Len(pending) = 1)

\* a request is pending, its body being read, and loading is set
C3_Witness == loading /\ Len(pending) = 1 /\ pending[1].stage = "json"

\* C4 as stated: a submission with no file held sends no request and sets the
\* error to 'Please upload a file', whatever the question is.
C4_Original ==
    [][(handleQuery /\ Len(files) = 0)
         => (error' = "Please upload a file" /\ pending' = pending)]_vars

\* C4 as amended: a submission with no file held sends no request and leaves
\* loading alone; the error becomes 'Please upload a file' when the question
\* is not blank, and 'Please enter a question' when it is.
C4_NoFileNoRequest ==
    [][(handleQuery /\ Len(files) = 0)
         => /\ pending' = pending
            /\ loading' = loading
            /\ error' = IF IsBlank(query) THEN "Please enter a question"
                        ELSE "Please upload a file"]_vars

\* a question was submitted with no file held
C4_Witness ==
    /\ error = "Please upload a file"
    /\ Len(files) = 0
    /\ ~IsBlank(query)
    /\ pending = <<>>
    /\ ~loading

\* C5: a submission with an empty or whitespace-only question sends no
\* request, does not set loading and sets the error to 'Please enter a
\* question', with or without a file held.
C5_BlankQuestionRejected ==
    [][(handleQuery /\ IsBlank(query))
         => /\ error' = "Please enter a question"
            /\ pending' = pending
            /\ loading' = loading
            /\ ~loading']_vars

\* a whitespace-only question was submitted while a file was held
C5_Witness ==
    /\ error = "Please enter a question"
    /\ query = " \n"
    /\ Len(files) = 1
    /\ pending = <<>>
    /\ ~loading

\* request i settles in this step
Settles(i) == JsonRejects(i) \/ \E d \in Bodies : JsonResolves(i, d)

\* C6: a network failure, a malformed body and a reply with a non-OK status
\* all end with an error that starts with 'Backend error:', and leave the
\* response as it was.
C6_EveryFailurePrefixed ==
    [][\A i \in 1..Len(pending) :
          (\/ \E m \in FetchFailures : FetchRejects(i, m)
           \/ JsonRejects(i)
           \/ (~pending[i].ok /\ Settles(i)))
            => (StartsWith(error', "Backend error:") /\ response' = response)]_vars

\* what C7 says of the step in which request i fails with message m
FailedWith(i, m) ==
    /\ error' = "Backend error: " \o m
    /\ response' = response
    /\ ~loading'
    /\ pending' = Without(pending, i)

\* C7: when fetch rejects or the body cannot be parsed, the error becomes
\* 'Backend error: ' followed by the failure's message, loading returns to
\* false, the request is gone and none is sent in its place; the response
\* is the one held before the submission: the submission leaves it alone,
\* and while the request is in flight only the parsed reply of a request can
\* change it.
C7_FailureSurfaced ==
    [][/\ \A i \in 1..Len(pending) :
            /\ \A m \in FetchFailures : FetchRejects(i, m) => FailedWith(i, m)
            /\ JsonRejects(i) => FailedWith(i, JsonSyntaxError)
       /\ handleQuery => response' = response
       /\ response' # response
            => \E i \in 1..Len(pending), d \in Bodies : JsonResolves(i, d)]_vars

\* the request failed with 'timeout' and the earlier answer is still shown
C7_Witness ==
    /\ error = "Backend error: timeout"
    /\ response = Str(AnswerText)
    /\ ~loading
    /\ pending = <<>>

\* C8: an ingestion that failed, by a read error or a PDF parse failure, has
\* the promise of processFile rejected.
C8_FailureRejects ==
    \A i \in 1..Len(ingestions) :
        ingestions[i].stage \in {"readError", "parseError"}
            => ingestions[i].promise = "rejected"

\* the body parses as JSON and has no answer: it is not an object, or it is
\* an object without the property
HasNoAnswer(d) == d.kind # "object" \/ d.answer = Undefined

\* C9: a body that parses as JSON and has no answer ends the submission with
\* the response 'No response found' and an empty error.
C9_NoAnswerFallback ==
    [][\A i \in 1..Len(pending) : \A d \in Bodies :
          (JsonResolves(i, d) /\ HasNoAnswer(d))
            => (response' = Str("No response found") /\ error' = "")]_vars

\* C10: for a held non-PDF file and a question q, the prompt sent is
\* 'Context:\nFile: <name>\nContent: <text>...\n\nQuery:\n<q>', <text>
\* being the first 1000 characters of the file's own bytes.
C10_PromptCarriesFileText ==
    [][(handleQuery /\ ~IsBlank(query) /\ Len(files) = 1 /\ files[1].type # PdfType)
         => /\ Len(pending') = Len(pending) + 1
            /\ pending'[Len(pending')].prompt =
                 "Context:\nFile: " \o files[1].name \o "\nContent: "
                   \o SubSeq(files[1].content.data, 1, Min(Len(files[1].content.data), 1000))
                   \o "...\n\nQuery:\n" \o query]_vars

=============================================================================
